---- MODULE Spec2Model ----
(***************************************************************************)
(* The outer-loop vectorizer pass of RV (src/src/passes/LoopVectorizer.cpp)*)
(* as a state machine: LoopVectorizer::run over the loop forest of one     *)
(* function, vectorizeLoopOrSubLoops as an explicit call stack, and        *)
(* vectorizeLoop as its stages (gate, width selection, shape preparation,  *)
(* header-phi classification, engine hand-off, verification).              *)
(***************************************************************************)
EXTENDS Integers, Sequences, FiniteSets, TLC

\* ------------------------------------------------------------------ bounds
MaxLoops == 3      \* loops of the function before the first run
MaxPhis == 2       \* header phis of a prepared loop
MaxRuns == 2       \* runs of the pass over the same function
MaxTrip == 10      \* backedge-taken counts this close to 0 and to INT_MAX
MaxCalls == 4      \* calls of SetReductionHint and ReadReductionHint

\* ------------------------------------------------- Optional<T> (rv LoopMD)
\* An optional value is the empty set (unset) or a singleton (set).
Unset == {}
Some(v) == {v}
isSet(o) == o # {}
get(o) == CHOOSE v \in o : TRUE
safeGet(o, d) == IF isSet(o) THEN get(o) ELSE d

\* The dependence distance of a loop without loop-carried dependences
\* ("unbounded"): larger than every vector width.
ParallelDistance == 2147483647

\* ------------------------------------------------------------ loop forest
\* Loop ids: 1..MaxLoops are the loops present before the first run; the
\* prepared copy the remainder transform makes of loop l is l + MaxLoops.
LoopIds == 1 .. (MaxLoops * (MaxRuns + 1))
Copy(l) == l + MaxLoops

\* LoopMD: the annotation record GetLoopAnnotation reads from loop metadata.
NoMD ==
  [vectorizeEnable |-> Unset, alreadyVectorized |-> Unset,
   explicitVectorWidth |-> Unset, minDepDist |-> Unset]

WidthValues == {1, 4}
DistValues == {1, 4}
AnnotDomain ==
  [vectorizeEnable : {Unset, Some(TRUE), Some(FALSE)},
   alreadyVectorized : {Unset, Some(TRUE)},
   explicitVectorWidth : {Unset} \cup {Some(w) : w \in WidthValues},
   minDepDist : {Unset} \cup {Some(d) : d \in DistValues}]

\* The loops of a nest: without annotation, annotated parallel, or
\* triggered with a recorded scalar dependence.
NestKinds == {"plain", "parallel", "dependent"}
NestMD(k) ==
  IF k = "dependent"
    THEN [NoMD EXCEPT !.vectorizeEnable = Some(TRUE), !.minDepDist = Some(1)]
    ELSE NoMD

\* How a loop is left: without a single exiting block, through a single
\* exiting block that does not end in a branch, or through one that does.
ExitShapes == {"none", "other", "branch"}

\* ------------------------------------------------------- the environment
\* Texts of RV_FORCE_WIDTH, as character sequences.
WidthTexts ==
  {<<"1">>, <<"0">>, <<"1", "6">>, <<"-", "2">>, <<"a", "b", "c">>}

DigitVal ==
  [c \in {"0", "1", "2", "3", "4", "5", "6", "7", "8", "9"} |->
     CASE c = "0" -> 0 [] c = "1" -> 1 [] c = "2" -> 2 [] c = "3" -> 3
       [] c = "4" -> 4 [] c = "5" -> 5 [] c = "6" -> 6 [] c = "7" -> 7
       [] c = "8" -> 8 [] c = "9" -> 9]

IsDigit(c) == c \in DOMAIN DigitVal

RECURSIVE ParseDigits(_, _, _)
ParseDigits(s, i, acc) ==
  IF i > Len(s) \/ ~IsDigit(s[i]) THEN acc
  ELSE ParseDigits(s, i + 1, acc * 10 + DigitVal[s[i]])

RECURSIVE SkipSpace(_, _)
SkipSpace(s, i) ==
  IF i <= Len(s) /\ s[i] = " " THEN SkipSpace(s, i + 1) ELSE i

\* atoi: leading blanks, an optional sign, then the longest digit prefix;
\* 0 when there is none.
atoi(s) ==
  LET i == SkipSpace(s, 1)
      neg == i <= Len(s) /\ s[i] = "-"
      j == IF i <= Len(s) /\ s[i] \in {"-", "+"} THEN i + 1 ELSE i
      v == ParseDigits(s, j, 0)
  IN  IF neg THEN 0 - v ELSE v

\* --------------------------------------------- analysis results (inputs)
\* The largest int.
IntMax == 2147483647

\* A 64-bit constant is the pair of words hi, lo that stands for
\* hi * 2^31 + lo, 0 <= lo <= IntMax.
Int64(hi, lo) == [hi |-> hi, lo |-> lo]

\* Backedge-taken counts ScalarEvolution may report: unknown or a constant.
BTCValues == {Unset, Some(Int64(0, 3))}

\* The backedge-taken counts getTripCount is examined on: unknown, and the
\* constants next to 0, INT_MAX, INT_MIN and UINT_MAX.
TripInputs ==
  {Unset} \cup
  {Some(Int64(h, l)) :
     h \in -2 .. 1, l \in (0 .. MaxTrip) \cup {IntMax - k : k \in 0 .. MaxTrip}}

\* Widths the cost model may pick.
CostResults == {0, 1, 4, 16}

\* A user of a reduction element: not an instruction, an element (elements
\* lie in the loop), or another instruction inside or outside the loop.
UserKinds ==
  {[isInst |-> FALSE, inLoop |-> FALSE, isElem |-> FALSE],
   [isInst |-> TRUE, inLoop |-> TRUE, isElem |-> TRUE],
   [isInst |-> TRUE, inLoop |-> TRUE, isElem |-> FALSE],
   [isInst |-> TRUE, inLoop |-> FALSE, isElem |-> FALSE]}

UserSets == {{}} \cup {{u} : u \in UserKinds}

RedKinds == {"Top", "Bot", "Add"}

\* A reduction descriptor: its kind and the users of its elements.
Reductions == [kind : RedKinds, users : UserSets]

\* What the reduction analysis knows of one header phi: whether a stride
\* pattern exists and the optional reduction descriptor.
PhiInfos == [pat : BOOLEAN, red : {Unset} \cup {Some(r) : r \in Reductions}]
NoPhi == [pat |-> FALSE, red |-> Unset]

\* The uniform overrides the remainder transform may emit: none, or the
\* adjusted loop bound.
UniOverrideSets == {{}, {"bound"}}

\* The header phis that can carry a reduction hint, and the "rv_redkind"
\* attachment of phis that were never hinted (getMetadata returns null).
PhiIds == 1 .. MaxPhis
NoHints == [p \in PhiIds |-> Unset]

\* The command-line options of registerPasses.cpp, all false by default.
OptionNames == {"rv", "rv-wfv", "rv-loopvec", "rv-lower", "rv-polish"}
Options == [OptionNames -> BOOLEAN]
NoOptions == [o \in OptionNames |-> FALSE]

\* The pass managers the extension points fill: the legacy pass manager,
\* the function pass manager of the vectorizer-start extension point and
\* the module pass manager of the optimizer-last extension point, with the
\* callbacks that have run.
NoPM == [legacy |-> <<>>, FPM |-> <<>>, MPM |-> <<>>, ran |-> {}]

VARIABLES
  env,               \* process environment: RV_FORCE_WIDTH, RV_DISABLE, LV_DIAG
  schedule,          \* how often the pipeline runs the pass on F
  isKernel,          \* IsHipSYCLKernel(F)
  phiLimit,          \* the most header phis a loop of F has
  LI,                \* loops of F (LoopInfo)
  parent,            \* parent loop of each loop, 0 for a top-level loop
  parallel,          \* Loop::isAnnotatedParallel
  md,                \* loop metadata, as LoopMD records
  exiting,           \* Loop::getExitingBlock and its terminator
  cfg,               \* loops whose control flow the remainder transform rewrote
  phiMD,             \* the "rv_redkind" metadata attached to each header phi
  hintCalls,         \* calls of SetReductionHint / ReadReductionHint so far
  opts,              \* values of the cl::opt flags of registerPasses.cpp
  PM,                \* the pass managers filled by the registration callbacks
  enableDiagOutput,  \* LoopVectorizer::enableDiagOutput
  introduced,        \* LoopVectorizer::introduced
  pc,                \* position of the pass
  runs,              \* runs started so far
  loops,             \* run(): top-level loops still to visit
  Changed,           \* run(): Changed
  stack,             \* frames of vectorizeLoopOrSubLoops
  ret,               \* value returned by the call that just ended
  vl,                \* locals of the current vectorizeLoop call
  obs,               \* what the current vectorizeLoop call did
  hist               \* what the runs did

hintVars == <<phiMD, hintCalls>>
regVars == <<opts, PM>>
irVars == <<LI, parent, parallel, md, exiting, cfg, hintVars>>
envVars == <<env, schedule, isKernel, phiLimit, regVars>>
runVars == <<runs, loops, Changed>>
vars ==
  <<env, schedule, isKernel, phiLimit, LI, parent, parallel, md, exiting, cfg,
    phiMD, hintCalls, opts, PM, enableDiagOutput, introduced,
    pc, runs, loops, Changed, stack, ret, vl, obs, hist>>

\* ------------------------------------------------------------ helpers
RECURSIVE SortedSeq(_)
SortedSeq(S) ==
  IF S = {} THEN <<>>
  ELSE LET m == CHOOSE x \in S : \A y \in S : x <= y
       IN  <<m>> \o SortedSeq(S \ {m})

SubLoops_FirstOnly(l) ==
  LET S == {s \in LI : parent[s] = l}
  IN  IF S = {} THEN <<>> ELSE <<CHOOSE x \in S : \A y \in S : x <= y>>

\* for (Loop *SubL : L): the immediate sub-loops of l, in a fixed order.
SubLoops(l) == SortedSeq({s \in LI : parent[s] = l})

\* for (Loop *L : *LI): the top-level loops of the function.
TopLevelLoops == SortedSeq({l \in LI : parent[l] = 0})

RECURSIVE Ancestors(_)
Ancestors(l) ==
  IF parent[l] = 0 THEN {} ELSE {parent[l]} \cup Ancestors(parent[l])

\* Locals of vectorizeLoop before a call.
NoCall ==
  [L |-> 0, mdAnnot |-> NoMD, depDist |-> 0, hasFixedWidth |-> FALSE,
   VectorWidth |-> 0, tripAlign |-> 0, PreparedLoop |-> 0, nPhis |-> 0,
   idx |-> 0, phi |-> NoPhi, pinned |-> <<>>, uniOverrides |-> {},
   pinnedUni |-> {}, BTC |-> Unset]

\* Observations of one vectorizeLoop call: the stages it went through, the
\* messages it reported, the cost-model calls, the widths it handed on, the
\* analysis invalidation, and the IR it found on entry.
NoObs ==
  [trace |-> <<>>, out |-> {}, costCalls |-> <<>>, rtWidth |-> Unset,
   engWidth |-> Unset, invalidated |-> {}, engineFailed |-> FALSE,
   mdBefore |-> NoMD, cfgBefore |-> {}]

\* Observations of the runs: the loops passed to vectorizeLoop in this run
\* (in call order), the loops it vectorized, the loops vectorized by earlier
\* runs, the result of the last finished run, and whether this run created
\* the VectorizerInterface.
NoHist ==
  [tried |-> <<>>, vectorized |-> {}, before |-> {}, result |-> Unset,
   engine |-> FALSE]

Report(o, enabled, msg) ==
  IF enabled THEN [o EXCEPT !.out = @ \cup {msg}] ELSE o

Stage(o, s) == [o EXCEPT !.trace = Append(@, s)]

\* ------------------------------------------------------------------- Init
Environments ==
  [RV_FORCE_WIDTH : {Unset} \cup {Some(t) : t \in WidthTexts},
   RV_DISABLE : BOOLEAN, LV_DIAG : BOOLEAN]

InitPass ==
  /\ cfg = {}
  /\ phiMD = NoHints
  /\ hintCalls = <<>>
  /\ opts = NoOptions
  /\ PM = NoPM
  /\ enableDiagOutput = FALSE
  /\ introduced = FALSE
  /\ pc = "idle"
  /\ runs = 0
  /\ loops = <<>>
  /\ Changed = FALSE
  /\ stack = <<>>
  /\ ret = FALSE
  /\ vl = NoCall
  /\ obs = NoObs
  /\ hist = NoHist

\* A function with a single loop carrying any annotation and left in any
\* way, run once.
Init ==
  /\ env \in Environments
  /\ schedule = 1
  /\ isKernel \in BOOLEAN
  /\ phiLimit = MaxPhis
  /\ LI = {1}
  /\ parent = [l \in LoopIds |-> 0]
  /\ \E p \in BOOLEAN : parallel = [l \in LoopIds |-> l = 1 /\ p]
  /\ \E a \in AnnotDomain : md = [l \in LoopIds |-> IF l = 1 THEN a ELSE NoMD]
  /\ \E e \in ExitShapes : exiting = [l \in LoopIds |-> IF l = 1 THEN e ELSE "branch"]
  /\ InitPass

\* Loop forests over 1..MaxLoops: the parent of a loop has a smaller id.
Forests ==
  {f \in [1 .. MaxLoops -> 0 .. MaxLoops] : \A l \in 1 .. MaxLoops : f[l] < l}

\* A function with a nest of loops of at most one header phi each, all left
\* through a branch, under the default environment, run once.
DefaultEnvironments ==
  {e \in Environments : e.RV_FORCE_WIDTH = Unset /\ ~e.LV_DIAG}

NestOf(Kinds) ==
  /\ env \in DefaultEnvironments
  /\ schedule = 1
  /\ isKernel \in BOOLEAN
  /\ phiLimit = 1
  /\ LI = 1 .. MaxLoops
  /\ \E f \in Forests :
       parent = [l \in LoopIds |-> IF l <= MaxLoops THEN f[l] ELSE 0]
  /\ \E k \in [1 .. MaxLoops -> Kinds] :
       /\ parallel = [l \in LoopIds |-> l <= MaxLoops /\ k[l] = "parallel"]
       /\ md = [l \in LoopIds |-> IF l <= MaxLoops THEN NestMD(k[l]) ELSE NoMD]
  /\ exiting = [l \in LoopIds |-> "branch"]
  /\ InitPass

InitNest == NestOf(NestKinds)

\* The same, every loop of the nest annotated: parallel, or triggered with
\* a recorded scalar dependence.
InitNestFair == NestOf({"parallel", "dependent"})

\* A function with a single loop left through a branch, under the default
\* environment, run MaxRuns times.
InitRerun ==
  /\ env \in DefaultEnvironments
  /\ schedule = MaxRuns
  /\ isKernel \in BOOLEAN
  /\ phiLimit = MaxPhis
  /\ LI = {1}
  /\ parent = [l \in LoopIds |-> 0]
  /\ \E p \in BOOLEAN : parallel = [l \in LoopIds |-> l = 1 /\ p]
  /\ \E a \in AnnotDomain : md = [l \in LoopIds |-> IF l = 1 THEN a ELSE NoMD]
  /\ exiting = [l \in LoopIds |-> "branch"]
  /\ InitPass

\* A loop with any backedge-taken count, at the call of getTripAlignment.
InitTrip ==
  /\ env = [RV_FORCE_WIDTH |-> Unset, RV_DISABLE |-> FALSE, LV_DIAG |-> FALSE]
  /\ schedule = 1
  /\ isKernel = TRUE
  /\ phiLimit = MaxPhis
  /\ LI = {1}
  /\ parent = [l \in LoopIds |-> 0]
  /\ parallel = [l \in LoopIds |-> FALSE]
  /\ md = [l \in LoopIds |-> NoMD]
  /\ exiting = [l \in LoopIds |-> "branch"]
  /\ cfg = {}
  /\ phiMD = NoHints
  /\ hintCalls = <<>>
  /\ opts = NoOptions
  /\ PM = NoPM
  /\ enableDiagOutput = FALSE
  /\ introduced = FALSE
  /\ pc = "trip"
  /\ runs = 1
  /\ loops = <<>>
  /\ Changed = FALSE
  /\ stack = <<>>
  /\ ret = FALSE
  /\ \E b \in TripInputs : vl = [NoCall EXCEPT !.L = 1, !.BTC = b]
  /\ obs = NoObs
  /\ hist = NoHist

\* ------------------------------------------------- run() and the traversal
ReturnsAtEntry_KernelOnly(e, kernel) == ~kernel

\* run(): if (getenv("RV_DISABLE")) return false; ...
\* if (!IsHipSYCLKernel(F)) return false;
ReturnsAtEntry(e, kernel) == e.RV_DISABLE \/ ~kernel

\* LoopVectorizerWrapperPass::run / runOnFunction: construct the pass for F
\* and enter run() up to the materialized list of top-level loops.
RunEntry ==
  /\ pc \in {"idle", "done"}
  /\ runs < schedule
  /\ runs' = runs + 1
  /\ enableDiagOutput' = env.LV_DIAG
  /\ introduced' = FALSE
  /\ vl' = NoCall
  /\ obs' = NoObs
  /\ stack' = <<>>
  /\ ret' = FALSE
  /\ Changed' = FALSE
  /\ IF ReturnsAtEntry(env, isKernel)
       THEN /\ pc' = "done"
            /\ loops' = <<>>
            /\ hist' = [tried |-> <<>>, vectorized |-> {},
                        before |-> hist.before \cup hist.vectorized,
                        result |-> Some(FALSE), engine |-> FALSE]
       ELSE /\ pc' = "run_loop"
            /\ loops' = TopLevelLoops
            /\ hist' = [tried |-> <<>>, vectorized |-> {},
                        before |-> hist.before \cup hist.vectorized,
                        result |-> Unset, engine |-> TRUE]
  /\ UNCHANGED <<envVars, irVars>>

\* Entering vectorizeLoopOrSubLoops(L): a new frame, and vectorizeLoop(L).
Call(L, below) ==
  /\ stack' = Append(below, [L |-> L, subs |-> <<>>, Changed |-> FALSE])
  /\ pc' = "gate"
  /\ vl' = [NoCall EXCEPT !.L = L]
  /\ obs' = [NoObs EXCEPT !.mdBefore = md[L], !.cfgBefore = cfg]
  /\ hist' = [hist EXCEPT !.tried = Append(@, L)]

\* run(): for (auto * L : loops) Changed |= vectorizeLoopOrSubLoops(*L), and
\* the cleanup once the list is done.
RunLoop ==
  /\ pc = "run_loop"
  /\ IF loops = <<>>
       THEN /\ pc' = "done"
            /\ hist' = [hist EXCEPT !.result = Some(Changed)]
            /\ UNCHANGED <<loops, stack, vl, obs>>
       ELSE /\ Call(Head(loops), <<>>)
            /\ loops' = Tail(loops)
  /\ UNCHANGED <<envVars, irVars, enableDiagOutput, introduced, runs, Changed, ret>>

ReturnsEarly_Never(r) == FALSE

\* if (vectorizeLoop(L)) return true;
ReturnsEarly(r) == r

\* vectorizeLoopOrSubLoops: vectorizeLoop(L) has returned; its locals are gone.
AfterVectorizeLoop ==
  /\ pc = "vl_ret"
  /\ LET top == stack[Len(stack)]
     IN  IF ReturnsEarly(ret)
           THEN /\ pc' = "vlos_ret"
                /\ stack' = SubSeq(stack, 1, Len(stack) - 1)
                /\ ret' = TRUE
           ELSE /\ pc' = "vlos_loop"
                /\ stack' = [stack EXCEPT ![Len(stack)].subs = SubLoops(top.L)]
                /\ ret' = FALSE
  /\ hist' = IF ret THEN [hist EXCEPT !.vectorized = @ \cup {vl.L}] ELSE hist
  /\ vl' = NoCall
  /\ obs' = NoObs
  /\ UNCHANGED <<envVars, irVars, enableDiagOutput, introduced, runVars>>

\* vectorizeLoopOrSubLoops: for (Loop* SubL : loops) Changed |= ..., and the
\* return of Changed once the list is done.
SubLoopNext ==
  /\ pc = "vlos_loop"
  /\ LET top == stack[Len(stack)]
     IN  IF top.subs = <<>>
           THEN /\ pc' = "vlos_ret"
                /\ stack' = SubSeq(stack, 1, Len(stack) - 1)
                /\ ret' = top.Changed
                /\ UNCHANGED <<vl, obs, hist>>
           ELSE /\ Call(Head(top.subs),
                        [stack EXCEPT ![Len(stack)].subs = Tail(top.subs)])
                /\ UNCHANGED ret
  /\ UNCHANGED <<envVars, irVars, enableDiagOutput, introduced, runVars>>

Accumulate_Overwrite(changed, r) == r

\* Changed |= vectorizeLoopOrSubLoops(...)
Accumulate(changed, r) == changed \/ r

\* A call of vectorizeLoopOrSubLoops has returned ret to its caller.
VLOSReturn ==
  /\ pc = "vlos_ret"
  /\ IF stack = <<>>
       THEN /\ pc' = "run_loop"
            /\ Changed' = Accumulate(Changed, ret)
            /\ UNCHANGED stack
       ELSE /\ pc' = "vlos_loop"
            /\ stack' = [stack EXCEPT ![Len(stack)].Changed = Accumulate(@, ret)]
            /\ UNCHANGED Changed
  /\ UNCHANGED <<envVars, irVars, enableDiagOutput, introduced, runs, loops, ret, vl, obs, hist>>

\* ---------------------------------------------------------- vectorizeLoop
\* canVectorizeLoop: the loop is annotated parallel and has a single exiting
\* block that ends in a branch. No step of vectorizeLoop calls it.
canVectorizeLoop(isPar, exit) ==
  IF ~isPar THEN FALSE
  ELSE IF exit = "none" THEN FALSE
  ELSE IF exit # "branch" THEN FALSE
  ELSE TRUE

GetLoopAnnotation(L) == md[L]

EffectiveAnnotation_DistanceOnly(m, isPar) ==
  IF isPar THEN [m EXCEPT !.minDepDist = Some(ParallelDistance)] ELSE m

\* A loop annotated parallel has no dependence and is triggered.
EffectiveAnnotation(m, isPar) ==
  IF isPar
    THEN [m EXCEPT !.minDepDist = Some(ParallelDistance),
                   !.vectorizeEnable = Some(TRUE)]
    ELSE m

NotTriggered(m) == ~safeGet(m.vectorizeEnable, FALSE)

AlreadyVectorized(m) == safeGet(m.alreadyVectorized, FALSE)

DepDist(m) == safeGet(m.minDepDist, ParallelDistance)

DepDistPrecludes_Zero(depDist) == depDist < 1

\* if (depDist <= 1): the distance precludes vectorization.
DepDistPrecludes(depDist) == depDist <= 1

\* The end of a vectorizeLoop call with value v and observations o.
Return(v, o) ==
  /\ pc' = "vl_ret"
  /\ ret' = v
  /\ obs' = o

\* The function analyses the pass fetches from the analysis manager.
CachedAnalyses ==
  {"DominatorTree", "PostDominatorTree", "LoopAnalysis", "BranchProbability",
   "ScalarEvolution"}

Invalidate_All(o) == [o EXCEPT !.invalidated = CachedAnalyses]

\* The invalidateGuard: every exit taken after it is set up invalidates the
\* cached analyses of F, all but LoopAnalysis.
Invalidate(o) == [o EXCEPT !.invalidated = CachedAnalyses \ {"LoopAnalysis"}]

\* vectorizeLoop, the trigger gate.
Gate ==
  /\ pc = "gate"
  /\ LET L == vl.L
         mdAnnot == EffectiveAnnotation(GetLoopAnnotation(L), parallel[L])
         depDist == DepDist(mdAnnot)
         o == Stage(Report(obs, enableDiagOutput, "annotation"), "gate")
     IN  IF NotTriggered(mdAnnot)
           THEN /\ Return(FALSE, Report(o, enableDiagOutput, "skip: not explicitly triggered"))
                /\ vl' = [vl EXCEPT !.mdAnnot = mdAnnot]
         ELSE IF AlreadyVectorized(mdAnnot)
           THEN /\ Return(FALSE, Report(o, enableDiagOutput, "skip: already vectorized"))
                /\ vl' = [vl EXCEPT !.mdAnnot = mdAnnot]
         ELSE IF DepDistPrecludes(depDist)
           THEN /\ Return(FALSE, Report(o, enableDiagOutput, "skip: min dependence distance"))
                /\ vl' = [vl EXCEPT !.mdAnnot = mdAnnot, !.depDist = depDist]
         ELSE /\ pc' = "width"
              /\ obs' = o
              /\ vl' = [vl EXCEPT !.mdAnnot = mdAnnot, !.depDist = depDist]
              /\ UNCHANGED ret
  /\ UNCHANGED <<envVars, irVars, enableDiagOutput, introduced, runVars, stack, hist>>

\* ((int64_t)((int) BTCVal)) == BTCVal
FitsInt(v) == v.hi \in {-1, 0}

\* BTCVal <= 1
AtMostOne(v) == v.hi < 0 \/ (v.hi = 0 /\ v.lo <= 1)

\* BTCVal + 1 returned as int: the sum of a count that fits an int and is
\* larger than 1, wrapping to INT_MIN from INT_MAX.
PlusOneAsInt(v) == IF v.lo = IntMax THEN (0 - IntMax) - 1 ELSE v.lo + 1

getTripCount(btc) ==
  IF ~isSet(btc) THEN -1
  ELSE IF AtMostOne(get(btc)) \/ ~FitsInt(get(btc)) THEN -1
  ELSE PlusOneAsInt(get(btc))

getTripAlignment(btc) ==
  LET tripCount == getTripCount(btc)
  IN  IF tripCount > 0 THEN tripCount ELSE 1

\* getTripAlignment(L) on its own, for a loop whose backedge-taken count
\* ScalarEvolution reports as vl.BTC.
TripAlign ==
  /\ pc = "trip"
  /\ pc' = "trip_done"
  /\ vl' = [vl EXCEPT !.tripAlign = getTripAlignment(vl.BTC)]
  /\ UNCHANGED <<envVars, irVars, enableDiagOutput, introduced, runVars, stack, ret, obs, hist>>

HasFixedWidth_AnnotationOnly(m, text) == isSet(m.explicitVectorWidth)

\* hasFixedWidth after the annotation and the environment were consulted.
HasFixedWidth(m, text) == isSet(m.explicitVectorWidth) \/ isSet(text)

UserWidth_AnnotationFirst(m, depDist, text) ==
  IF isSet(m.explicitVectorWidth) THEN get(m.explicitVectorWidth)
  ELSE IF isSet(text) THEN atoi(get(text))
  ELSE depDist

\* VectorWidth before the cost model: the explicit annotation or else the
\* dependence distance, overridden by RV_FORCE_WIDTH when that is set.
UserWidth(m, depDist, text) ==
  IF isSet(text) THEN atoi(get(text))
  ELSE IF isSet(m.explicitVectorWidth) THEN get(m.explicitVectorWidth)
  ELSE depDist

InitialWidth(VectorWidth, depDist) ==
  IF VectorWidth = 0 THEN depDist ELSE VectorWidth

NotBeneficial_Zero(refinedWidth) == refinedWidth < 1

\* if (refinedWidth <= 1): vectorization is not beneficial.
NotBeneficial(refinedWidth) == refinedWidth <= 1

\* vectorizeLoop, width selection: trip alignment, the fixed width or the
\* cost model's refinement, and the "Vectorize" report.
WidthSelect ==
  /\ pc = "width"
  /\ \E btc \in BTCValues, refinedWidth \in CostResults :
       LET text == env.RV_FORCE_WIDTH
           hasFixedWidth == HasFixedWidth(vl.mdAnnot, text)
           width0 == UserWidth(vl.mdAnnot, vl.depDist, text)
           o0 == Report(Stage(obs, "width"), enableDiagOutput /\ isSet(text),
                        "user-provided vector width")
           v0 == [vl EXCEPT !.tripAlign = getTripAlignment(btc),
                            !.hasFixedWidth = hasFixedWidth,
                            !.VectorWidth = width0]
           o1 == [o0 EXCEPT !.costCalls =
                    Append(@, [guess |-> InitialWidth(width0, vl.depDist),
                               refined |-> refinedWidth])]
       IN  IF hasFixedWidth
             THEN /\ pc' = "prepare"
                  /\ vl' = v0
                  /\ obs' = Report(o0, TRUE, "Vectorize")
                  /\ UNCHANGED ret
           ELSE IF NotBeneficial(refinedWidth)
             THEN /\ Return(FALSE, Invalidate(Report(o1, enableDiagOutput,
                                     "costModel: vectorization not beneficial")))
                  /\ vl' = v0
           ELSE /\ pc' = "prepare"
                /\ vl' = [v0 EXCEPT !.VectorWidth = refinedWidth]
                /\ obs' = Report(Report(o1, enableDiagOutput /\ refinedWidth # width0,
                                        "costModel: refined vector width"),
                                 TRUE, "Vectorize")
                /\ UNCHANGED ret
  /\ UNCHANGED <<envVars, irVars, enableDiagOutput, introduced, runVars, stack, hist>>

\* SetLLVMLoopAnnotations(L, llvmLoopMD): the fields set in llvmLoopMD are
\* written to the metadata of L.
SetLLVMLoopAnnotations(m, llvmLoopMD) ==
  [f \in DOMAIN m |-> IF isSet(llvmLoopMD[f]) THEN llvmLoopMD[f] ELSE m[f]]

\* ClearLoopVectorizeAnnotations: the vectorization hints are stripped.
ClearLoopVectorizeAnnotations(m) ==
  [m EXCEPT !.vectorizeEnable = Unset, !.explicitVectorWidth = Unset]

\* The metadata after a successful createVectorizableLoop(L): the prepared
\* loop is a copy of L; L is marked, the copy loses its hints.
PreparedMD(L) ==
  [md EXCEPT ![L] = SetLLVMLoopAnnotations(md[L], [NoMD EXCEPT !.alreadyVectorized = Some(TRUE)]),
             ![Copy(L)] = ClearLoopVectorizeAnnotations(md[L])]

\* The loop tree after a successful createVectorizableLoop(L): the prepared
\* loop stands next to L and is annotated parallel exactly if L is.
PreparedParent(L) == [parent EXCEPT ![Copy(L)] = parent[L]]
PreparedParallel(L) == [parallel EXCEPT ![Copy(L)] = parallel[L]]
PreparedExiting(L) == [exiting EXCEPT ![Copy(L)] = exiting[L]]

\* vectorizeLoop, shape preparation: the reduction analysis of L (stage
\* "reda"), then the remainder transform (stage "prepare", the last use of
\* tripAlign), the annotation of both loops and the banner.
ShapePrepare ==
  /\ pc = "prepare"
  /\ \E prepared \in BOOLEAN, n \in 0 .. phiLimit, uni \in UniOverrideSets :
       LET L == vl.L
           o == [Stage(Stage(obs, "reda"), "prepare") EXCEPT
                   !.rtWidth = Some(vl.VectorWidth)]
       IN  IF ~prepared
             THEN /\ n = 0
                  /\ uni = {}
                  /\ Return(FALSE, Invalidate(Report(o, TRUE, "Can not prepare vectorization of the loop")))
                  /\ vl' = [vl EXCEPT !.tripAlign = 0]
                  /\ UNCHANGED <<irVars, introduced>>
             ELSE /\ LI' = LI \cup {Copy(L)}
                  /\ parent' = PreparedParent(L)
                  /\ parallel' = PreparedParallel(L)
                  /\ exiting' = PreparedExiting(L)
                  /\ cfg' = cfg \cup {L}
                  /\ md' = PreparedMD(L)
                  /\ UNCHANGED hintVars
                  /\ introduced' = TRUE
                  /\ vl' = [vl EXCEPT !.PreparedLoop = Copy(L), !.nPhis = n,
                                       !.uniOverrides = uni, !.tripAlign = 0]
                  /\ obs' = [Report(o, ~introduced, "rv::Config") EXCEPT
                               !.engWidth = Some(vl.VectorWidth)]
                  /\ pc' = "classify"
                  /\ UNCHANGED ret
  /\ UNCHANGED <<envVars, enableDiagOutput, runVars, stack, hist>>

IsSupportedReduction_AnyInstruction(red) == \A u \in red.users : u.isInst

\* Every user of an element is an instruction that is an element or lies
\* outside the loop.
IsSupportedReduction(red) ==
  \A u \in red.users : u.isInst /\ ~(u.inLoop /\ ~u.isElem)

Rejection_BotAccepted(info) ==
  IF info.pat THEN ""
  ELSE IF ~isSet(info.red) THEN "skip: unrecognized phi use in vector loop"
  ELSE IF ~IsSupportedReduction(get(info.red)) THEN "unsupported reduction"
  ELSE IF get(info.red).kind = "Top" THEN "can not vectorize this non-trivial SCC"
  ELSE ""

Rejection_IgnoresPattern(info) ==
  IF ~isSet(info.red) THEN "skip: unrecognized phi use in vector loop"
  ELSE IF ~IsSupportedReduction(get(info.red)) THEN "unsupported reduction"
  ELSE IF get(info.red).kind = "Top" THEN "can not vectorize this non-trivial SCC"
  ELSE IF get(info.red).kind = "Bot" THEN "can not vectorize this non-affine recurrence"
  ELSE ""

\* Why the header phi with analysis result info is rejected, "" if it is not.
Rejection(info) ==
  IF info.pat THEN ""
  ELSE IF ~isSet(info.red) THEN "skip: unrecognized phi use in vector loop"
  ELSE IF ~IsSupportedReduction(get(info.red)) THEN "unsupported reduction"
  ELSE IF get(info.red).kind = "Top" THEN "can not vectorize this non-trivial SCC"
  ELSE IF get(info.red).kind = "Bot" THEN "can not vectorize this non-affine recurrence"
  ELSE ""

\* The shape of an accepted header phi: the stride pattern's or the
\* reduction's, for the chosen width.
PhiShape(info, VectorWidth) ==
  IF info.pat THEN [shape |-> "strided", width |-> VectorWidth]
  ELSE [shape |-> get(info.red).kind, width |-> VectorWidth]

isDefined_Strided(shape) == shape.shape = "strided"

\* VectorShape::isDefined
isDefined(shape) == shape.shape # "undef"

\* vectorizeLoop, one iteration of the loop over the header phis of the
\* prepared loop.
ClassifyPhi ==
  /\ pc = "classify"
  /\ vl.idx < vl.nPhis
  /\ \E info \in PhiInfos :
       LET v == [vl EXCEPT !.idx = @ + 1, !.phi = info]
           o == Stage(obs, "classify")
       IN  IF Rejection(info) # ""
             THEN /\ Return(FALSE, Invalidate(Report(o, TRUE, Rejection(info))))
                  /\ vl' = v
             ELSE /\ vl' = [v EXCEPT !.pinned =
                               IF isDefined(PhiShape(info, vl.VectorWidth))
                                 THEN Append(@, PhiShape(info, vl.VectorWidth))
                                 ELSE @]
                  /\ obs' = o
                  /\ UNCHANGED <<pc, ret>>
  /\ UNCHANGED <<envVars, irVars, enableDiagOutput, introduced, runVars, stack, hist>>

\* vectorizeLoop, after the phi loop (phi is out of scope): uniform overrides are pinned, the
\* function is verified, runtime calls lowered and dominance recomputed.
LowerRuntimeCalls ==
  /\ pc = "classify"
  /\ vl.idx = vl.nPhis
  /\ pc' = "analyze"
  /\ obs' = Stage(obs, "lowerRuntimeCalls")
  /\ vl' = [vl EXCEPT !.phi = NoPhi, !.pinnedUni = vl.uniOverrides]
  /\ UNCHANGED <<envVars, irVars, enableDiagOutput, introduced, runVars, stack, ret, hist>>

Analyze_SkipLinearize ==
  /\ pc = "analyze"
  /\ pc' = "vectorize"
  /\ obs' = Report(Stage(obs, "analyze"), enableDiagOutput, "VA result")
  /\ UNCHANGED <<envVars, irVars, enableDiagOutput, introduced, runVars, stack, ret, vl, hist>>

\* vectorizer->analyze(vecInfo, FAM)
Analyze ==
  /\ pc = "analyze"
  /\ pc' = "linearize"
  /\ obs' = Report(Stage(obs, "analyze"), enableDiagOutput, "VA result")
  /\ UNCHANGED <<envVars, irVars, enableDiagOutput, introduced, runVars, stack, ret, vl, hist>>

\* vectorizer->linearize(vecInfo, FAM)
Linearize ==
  /\ pc = "linearize"
  /\ pc' = "vectorize"
  /\ obs' = Stage(obs, "linearize")
  /\ UNCHANGED <<envVars, irVars, enableDiagOutput, introduced, runVars, stack, ret, vl, hist>>

\* What follows llvm_unreachable("vector code generation failed"): the
\* abort of a build with assertions, or, where it is compiled to an
\* unreachable hint, execution running on.
AfterUnreachable == {"aborted", "verify"}

\* vectorizer->vectorize(vecInfo, FAM, &vecMap) and the check of its result.
Vectorize ==
  /\ pc = "vectorize"
  /\ \E vectorizeOk \in BOOLEAN :
       IF vectorizeOk
         THEN /\ pc' = "verify"
              /\ obs' = Stage(obs, "vectorize")
         ELSE /\ pc' \in AfterUnreachable
              /\ obs' = [Stage(obs, "vectorize") EXCEPT !.engineFailed = TRUE]
  /\ UNCHANGED <<envVars, irVars, enableDiagOutput, introduced, runVars, stack, ret, vl, hist>>

\* vectorizeLoop, the end: the vectorized blocks are dumped, the function is
\* verified and true is returned.
Verify ==
  /\ pc = "verify"
  /\ Return(TRUE, Invalidate(Report(Stage(obs, "verify"), enableDiagOutput, "Vectorized")))
  /\ UNCHANGED <<envVars, irVars, enableDiagOutput, introduced, runVars, stack, vl, hist>>

\* The process sets or unsets RV_DISABLE in its environment, at any time.
EnvChange ==
  /\ env' = [env EXCEPT !.RV_DISABLE = ~@]
  /\ UNCHANGED <<schedule, isKernel, phiLimit, regVars, irVars, enableDiagOutput,
                 introduced, pc, runVars, stack, ret, vl, obs, hist>>

\* LoopVectorizerWrapperPass::run: what the new pass manager is told.
PreservedAnalyses(changed) == IF changed THEN "none" ELSE "all"

\* ------------------------------------ reduction hints (annotations.cpp)
\* The variables the annotation calls and the registration callbacks leave
\* alone: the loops of F and the pass.
loopVars == <<LI, parent, parallel, md, exiting, cfg>>
passVars == <<enableDiagOutput, introduced, pc, runVars, stack, ret, vl, obs, hist>>

\* to_string(RedKind): the text of a reduction kind, as its characters.
to_string(k) ==
  CASE k = "Top" -> <<"T", "o", "p">>
    [] k = "Bot" -> <<"B", "o", "t">>
    [] k = "Add" -> <<"A", "d", "d">>

\* from_string(text, kind): whether text names a kind, and the values kind
\* may hold afterwards; it is left uninitialized when nothing was parsed.
from_string(text) ==
  IF \E k \in RedKinds : to_string(k) = text
    THEN [parsed |-> TRUE, kind |-> {CHOOSE k \in RedKinds : to_string(k) = text}]
    ELSE [parsed |-> FALSE, kind |-> RedKinds]

MDString(text) == [MDString |-> text]
MDNode(operands) == [operands |-> operands]

setMetadata_KeepFirst(h, p, node) ==
  IF isSet(h[p]) THEN h ELSE [h EXCEPT ![p] = Some(node)]

\* Instruction::setMetadata("rv_redkind", node): the attachment of that kind
\* on this instruction is replaced.
setMetadata(h, p, node) == [h EXCEPT ![p] = Some(node)]

\* SetReductionHint(loopHeaderPhi, redKind): the attachments afterwards.
SetReductionHint(h, p, redKind) ==
  LET redKindText == to_string(redKind)
      redKindNode == MDString(redKindText)
      boxedNode == MDNode(<<redKindNode>>)
  IN  setMetadata(h, p, boxedNode)

\* ReadReductionHint(loopHeaderPhi): the kinds it may return.
ReadReductionHint(h, p) ==
  LET boxedHint == h[p]
  IN  IF ~isSet(boxedHint) THEN {"Bot"}
      ELSE LET boxedRedCode == get(boxedHint).operands[1]
           IN  from_string(boxedRedCode.MDString).kind

\* A client hints a header phi.
SetHint ==
  /\ pc = "hint"
  /\ Len(hintCalls) < MaxCalls
  /\ \E p \in PhiIds, k \in RedKinds :
       /\ phiMD' = SetReductionHint(phiMD, p, k)
       /\ hintCalls' = Append(hintCalls, [op |-> "set", phi |-> p, kind |-> k])
  /\ UNCHANGED <<env, schedule, isKernel, phiLimit, regVars, loopVars, passVars>>

\* A client reads the hint of a header phi.
ReadHint ==
  /\ pc = "hint"
  /\ Len(hintCalls) < MaxCalls
  /\ \E p \in PhiIds :
       \E k \in ReadReductionHint(phiMD, p) :
         hintCalls' = Append(hintCalls, [op |-> "read", phi |-> p, kind |-> k])
  /\ UNCHANGED <<env, schedule, isKernel, phiLimit, regVars, loopVars, passVars, phiMD>>

\* The pass not running, for the clients of the annotations and of the pass
\* registration: a function with one loop, no hint attached, no callback run.
InitClient(at) ==
  /\ env = [RV_FORCE_WIDTH |-> Unset, RV_DISABLE |-> FALSE, LV_DIAG |-> FALSE]
  /\ schedule = 1
  /\ isKernel = TRUE
  /\ phiLimit = MaxPhis
  /\ LI = {1}
  /\ parent = [l \in LoopIds |-> 0]
  /\ parallel = [l \in LoopIds |-> FALSE]
  /\ md = [l \in LoopIds |-> NoMD]
  /\ exiting = [l \in LoopIds |-> "branch"]
  /\ cfg = {}
  /\ phiMD = NoHints
  /\ hintCalls = <<>>
  /\ PM = NoPM
  /\ enableDiagOutput = FALSE
  /\ introduced = FALSE
  /\ pc = at
  /\ runs = 0
  /\ loops = <<>>
  /\ Changed = FALSE
  /\ stack = <<>>
  /\ ret = FALSE
  /\ vl = NoCall
  /\ obs = NoObs
  /\ hist = NoHist

\* Header phis without hints, before any call.
InitHint == InitClient("hint") /\ opts = NoOptions

\* ------------------------------- pass registration (registerPasses.cpp)
mayVectorize(o) == o["rv-wfv"] \/ o["rv-loopvec"] \/ o["rv"]
shouldRunWFVPass(o) == o["rv-wfv"] \/ o["rv"]
shouldRunLoopVecPass(o) == o["rv-loopvec"] \/ o["rv"]
shouldLowerBuiltins(o) == o["rv-lower"]

\* addPreparatoryPasses and addCleanupPasses (the function passes of the
\* adaptor in pipeline order), and their legacy counterparts.
PreparatoryPasses == <<"LoopSimplify", "LCSSA", "LoopExitCanonicalizer">>
CleanupPasses == <<"AlwaysInliner", "AggressiveInstCombine", "ADCE">>
PreparatoryLegacyPasses == PreparatoryPasses
CleanupLegacyPasses == CleanupPasses

When(c, passes) == IF c THEN passes ELSE <<>>

\* registerLegacyRVPasses(Builder, PM): PM afterwards.
registerLegacyRVPasses(o, pm) ==
  IF o["rv-polish"] THEN pm \o <<"IRPolisher">>
  ELSE pm \o When(mayVectorize(o), PreparatoryLegacyPasses)
          \o When(shouldRunWFVPass(o), <<"WFV">>)
          \o When(shouldRunLoopVecPass(o), <<"LoopVectorizer">>)
          \o When(mayVectorize(o), CleanupLegacyPasses)

\* registerLastRVLegacyPasses(Builder, PM): PM afterwards.
registerLastRVLegacyPasses(o, pm) ==
  pm \o When(shouldLowerBuiltins(o), <<"LowerRVIntrinsics">>)

\* The vectorizer-start callback of addConfiguredRVPasses: FPM afterwards.
VectorizerStartEPCallback(o, fpm) ==
  IF o["rv-polish"] THEN fpm \o <<"IRPolisher">>
  ELSE fpm \o When(mayVectorize(o), PreparatoryPasses)
           \o When(shouldRunLoopVecPass(o), <<"LoopVectorizer">>)

\* The optimizer-last callback of addConfiguredRVPasses: MPM afterwards.
OptimizerLastEPCallback(o, mpm) ==
  mpm \o When(shouldRunWFVPass(o), <<"WFV">>)
      \o When(shouldLowerBuiltins(o), <<"LowerRVIntrinsics">>)
      \o When(mayVectorize(o), CleanupPasses)

\* The legacy PassManagerBuilder reaches EP_VectorizerStart.
LegacyVectorizerStart ==
  /\ pc = "register"
  /\ "legacyVS" \notin PM.ran
  /\ PM' = [PM EXCEPT !.legacy = registerLegacyRVPasses(opts, @),
                      !.ran = @ \cup {"legacyVS"}]
  /\ UNCHANGED <<env, schedule, isKernel, phiLimit, opts, irVars, passVars>>

\* The legacy PassManagerBuilder reaches EP_OptimizerLast.
LegacyOptimizerLast ==
  /\ pc = "register"
  /\ "legacyVS" \in PM.ran
  /\ "legacyOL" \notin PM.ran
  /\ PM' = [PM EXCEPT !.legacy = registerLastRVLegacyPasses(opts, @),
                      !.ran = @ \cup {"legacyOL"}]
  /\ UNCHANGED <<env, schedule, isKernel, phiLimit, opts, irVars, passVars>>

\* The PassBuilder invokes the vectorizer-start callback.
VectorizerStart ==
  /\ pc = "register"
  /\ "VS" \notin PM.ran
  /\ PM' = [PM EXCEPT !.FPM = VectorizerStartEPCallback(opts, @),
                      !.ran = @ \cup {"VS"}]
  /\ UNCHANGED <<env, schedule, isKernel, phiLimit, opts, irVars, passVars>>

\* The PassBuilder invokes the optimizer-last callback.
OptimizerLast ==
  /\ pc = "register"
  /\ "VS" \in PM.ran
  /\ "OL" \notin PM.ran
  /\ PM' = [PM EXCEPT !.MPM = OptimizerLastEPCallback(opts, @),
                      !.ran = @ \cup {"OL"}]
  /\ UNCHANGED <<env, schedule, isKernel, phiLimit, opts, irVars, passVars>>

\* Any combination of the options, before a pipeline is built.
InitReg == InitClient("register") /\ opts \in Options

\* ------------------------------------------------------------------- Next
Next ==
  \/ RunEntry
  \/ RunLoop
  \/ AfterVectorizeLoop
  \/ SubLoopNext
  \/ VLOSReturn
  \/ Gate
  \/ WidthSelect
  \/ ShapePrepare
  \/ ClassifyPhi
  \/ LowerRuntimeCalls
  \/ Analyze
  \/ Linearize
  \/ Vectorize
  \/ Verify

\* One loop with any annotation, under any environment.
Spec == Init /\ [][Next]_vars

\* A nest of loops.
SpecNest == InitNest /\ [][Next]_vars

\* One loop, the pass run again over its result.
SpecRerun == InitRerun /\ [][Next]_vars

\* A nest of annotated loops, RV_DISABLE changing under the pass.
NextSwitch == Next \/ EnvChange

SpecSwitch == InitNestFair /\ [][NextSwitch]_vars

\* getTripAlignment over the backedge-taken counts of TripInputs.
NextTrip == TripAlign

SpecTrip == InitTrip /\ [][NextTrip]_vars

\* A nest of annotated loops, the pass being straight-line sequential code
\* that takes its next step whenever it has one (every call into the
\* reduction analysis, the remainder transform and the engine returns).
SpecNestFair == InitNestFair /\ [][Next]_vars /\ WF_vars(Next)

\* Clients hinting header phis and reading the hints back, in any order.
NextHint == SetHint \/ ReadHint

SpecHint == InitHint /\ [][NextHint]_vars

\* Both pass managers building their pipeline under any option values.
NextReg ==
  \/ LegacyVectorizerStart
  \/ LegacyOptimizerLast
  \/ VectorizerStart
  \/ OptimizerLast

SpecReg == InitReg /\ [][NextReg]_vars

\* ================================================================ claims
InCall == vl.L # 0

Reached(s) == \E i \in DOMAIN obs.trace : obs.trace[i] = s

PassedGate == InCall /\ Reached("width")

EngineStages == {"analyze", "linearize", "vectorize"}

EngineCalled == \E s \in EngineStages : Reached(s)

Skipped == pc = "vl_ret" /\ ~ret

\* The loop of the current call as the call found it: nothing was handed to
\* the remainder transform, the metadata and the control flow are untouched.
Untransformed ==
  /\ obs.rtWidth = Unset
  /\ obs.engWidth = Unset
  /\ md[vl.L] = obs.mdBefore
  /\ cfg = obs.cfgBefore
  /\ Copy(vl.L) \notin LI
  /\ ~EngineCalled
  /\ pc = "vl_ret" => ~ret

RecordedScalarDependence ==
  isSet(obs.mdBefore.minDepDist) /\ get(obs.mdBefore.minDepDist) <= 1

\* C1, as claimed: a loop whose recorded annotation has minDepDist <= 1 is
\* never transformed, loops annotated parallel included.
C1_DependenceGateAllLoops ==
  (InCall /\ RecordedScalarDependence) => Untransformed

\* C1, amended: a loop that is not annotated parallel and whose recorded
\* annotation has minDepDist <= 1 is never transformed: the call does not
\* pass the gate, hands nothing to the remainder transform or the engine,
\* leaves metadata and control flow as they were and returns false.
C1_DependenceGate ==
  (InCall /\ RecordedScalarDependence /\ ~parallel[vl.L]) =>
    (Untransformed /\ ~PassedGate)

\* A triggered, not yet vectorized, non-parallel loop with distance 1 was
\* rejected at the gate.
C1_Witness ==
  /\ Skipped
  /\ ~parallel[vl.L]
  /\ obs.mdBefore.vectorizeEnable = Some(TRUE)
  /\ obs.mdBefore.alreadyVectorized = Unset
  /\ obs.mdBefore.minDepDist = Some(1)
  /\ obs.trace = <<"gate">>

WidthOfText(t) ==
  CASE t = <<"1">> -> 1
    [] t = <<"0">> -> 0
    [] t = <<"1", "6">> -> 16
    [] t = <<"-", "2">> -> -2
    [] t = <<"a", "b", "c">> -> 0

HasOverride ==
  isSet(obs.mdBefore.explicitVectorWidth) \/ isSet(env.RV_FORCE_WIDTH)

OverrideValue ==
  IF isSet(env.RV_FORCE_WIDTH) THEN WidthOfText(get(env.RV_FORCE_WIDTH))
  ELSE get(obs.mdBefore.explicitVectorWidth)

\* C3: for a loop past the gate whose annotation carries an explicit width
\* or for which RV_FORCE_WIDTH is set, the cost model is not invoked, no
\* refinement is reported, and the width handed to the remainder transform
\* and to the engine is the override (the environment's when it is set).
C3_WidthUnderOverride ==
  (PassedGate /\ HasOverride) =>
    /\ obs.costCalls = <<>>
    /\ "costModel: refined vector width" \notin obs.out
    /\ "costModel: vectorization not beneficial" \notin obs.out
    /\ vl.VectorWidth = OverrideValue
    /\ isSet(obs.rtWidth) => get(obs.rtWidth) = OverrideValue
    /\ isSet(obs.engWidth) => get(obs.engWidth) = OverrideValue

\* With diagnostics on and RV_FORCE_WIDTH=16 a loop was vectorized.
C3_Witness ==
  /\ pc = "vl_ret"
  /\ ret
  /\ enableDiagOutput
  /\ env.RV_FORCE_WIDTH = Some(<<"1", "6">>)
  /\ obs.engWidth = Some(16)

\* C4, as claimed: the width used for the transform is the explicit width
\* of the annotation, whatever RV_FORCE_WIDTH is.
C4_ExplicitWidthWins ==
  (InCall /\ isSet(obs.mdBefore.explicitVectorWidth) /\ isSet(obs.rtWidth)) =>
    get(obs.rtWidth) = get(obs.mdBefore.explicitVectorWidth)

\* C4, amended: with explicitVectorWidth = w the width used for the
\* transform is w when RV_FORCE_WIDTH is unset and the value of the
\* RV_FORCE_WIDTH text when it is set.
C4_ExplicitWidthUnlessForced ==
  (InCall /\ isSet(obs.mdBefore.explicitVectorWidth) /\ isSet(obs.rtWidth)) =>
    IF isSet(env.RV_FORCE_WIDTH)
      THEN get(obs.rtWidth) = WidthOfText(get(env.RV_FORCE_WIDTH))
      ELSE get(obs.rtWidth) = get(obs.mdBefore.explicitVectorWidth)

\* An explicit width of 4 reached the remainder transform while
\* RV_FORCE_WIDTH was unset.
C4_Witness ==
  /\ InCall
  /\ obs.mdBefore.explicitVectorWidth = Some(4)
  /\ env.RV_FORCE_WIDTH = Unset
  /\ obs.rtWidth = Some(4)

\* C5: the width handed to the remainder transform is at least 1.
C5_WidthPositive ==
  (InCall /\ isSet(obs.rtWidth)) => get(obs.rtWidth) >= 1

\* C6: a call whose selected width is 1 does not transform the loop.
C6_WidthOneIsNoVectorization ==
  (PassedGate /\ pc # "width" /\ vl.VectorWidth = 1) => Untransformed

\* C7: a call that ends in a skip leaves the control flow of the function
\* and the annotations of its loop as it found them.
C7_SkipLeavesLoopUnmodified ==
  (InCall /\ Skipped) =>
    /\ cfg = obs.cfgBefore
    /\ md[vl.L] = obs.mdBefore
    /\ Copy(vl.L) \notin LI

\* The header phi the classification has just examined.
PhiExamined ==
  /\ InCall
  /\ vl.idx > 0
  /\ obs.trace[Len(obs.trace)] = "classify"

Rejected == Skipped /\ ~EngineCalled /\ Len(vl.pinned) = vl.idx - 1

UsedOutsideLoop(red) ==
  \E u \in red.users : u.isInst /\ ~u.isElem /\ ~u.inLoop

UsedInsideLoop(red) ==
  \E u \in red.users : u.isInst /\ ~u.isElem /\ u.inLoop

UsedByNonInstruction(red) == \E u \in red.users : ~u.isInst

\* C8, as claimed: a header phi without stride pattern whose descriptor has
\* an element used outside the element set and outside the loop makes the
\* loop rejected.
C8_OutsideUseRejects ==
  (PhiExamined /\ ~vl.phi.pat /\ isSet(vl.phi.red) /\
   UsedOutsideLoop(get(vl.phi.red))) => Rejected

\* C8, amended: a header phi without stride pattern whose descriptor has an
\* element used outside the element set and inside the loop makes the loop
\* rejected, never handed to the engine; a use outside the loop by itself
\* does not.
C8_InsideUseRejects ==
  /\ (PhiExamined /\ ~vl.phi.pat /\ isSet(vl.phi.red) /\
      UsedInsideLoop(get(vl.phi.red))) => Rejected
  /\ (PhiExamined /\ ~vl.phi.pat /\ isSet(vl.phi.red) /\
      get(vl.phi.red).kind = "Add" /\ ~UsedInsideLoop(get(vl.phi.red)) /\
      ~UsedByNonInstruction(get(vl.phi.red))) => ~Rejected

\* An Add reduction with a user inside the loop that is no element was
\* rejected.
C8_Witness ==
  /\ PhiExamined
  /\ Rejected
  /\ ~vl.phi.pat
  /\ isSet(vl.phi.red)
  /\ get(vl.phi.red).kind = "Add"
  /\ UsedInsideLoop(get(vl.phi.red))

\* C9: a header phi without stride pattern makes the loop rejected, the
\* engine never called, if it has no descriptor, an element with a user
\* that is no instruction or lies inside the loop without being an element,
\* or a descriptor of kind Top or Bot; otherwise, and only then, the phi is
\* pinned to the descriptor's shape for the chosen width.
C9_ClassificationRejection ==
  (PhiExamined /\ ~vl.phi.pat) =>
    IF \/ ~isSet(vl.phi.red)
       \/ UsedByNonInstruction(get(vl.phi.red))
       \/ UsedInsideLoop(get(vl.phi.red))
       \/ get(vl.phi.red).kind \in {"Top", "Bot"}
      THEN Rejected
      ELSE /\ pc = "classify"
           /\ Len(vl.pinned) = vl.idx
           /\ vl.pinned[vl.idx] =
                [shape |-> get(vl.phi.red).kind, width |-> vl.VectorWidth]

\* The second header phi, a Bot recurrence, was rejected after the first
\* was pinned.
C9_Witness ==
  /\ PhiExamined
  /\ vl.idx = 2
  /\ Rejected
  /\ isSet(vl.phi.red)
  /\ get(vl.phi.red).kind = "Bot"
  /\ get(vl.phi.red).users = {}

Position(l) == CHOOSE i \in DOMAIN hist.tried : hist.tried[i] = l

Tried == {hist.tried[i] : i \in DOMAIN hist.tried}

\* C10: every loop is tried after all its ancestors, no loop nested in a
\* loop that vectorized in this run is tried, and no two loops vectorized in
\* one run are nested in one another.
C10_NoNestedVectorization ==
  /\ \A l \in Tried : \A a \in Ancestors(l) :
       a \in Tried /\ Position(a) < Position(l)
  /\ \A i, j \in DOMAIN hist.tried : hist.tried[i] = hist.tried[j] => i = j
  /\ \A l \in Tried : Ancestors(l) \cap hist.vectorized = {}
  /\ \A l \in hist.vectorized : Ancestors(l) \cap hist.vectorized = {}

\* The run ended with an outer loop vectorized, its sub-loop and that
\* loop's sub-loop never tried.
C10_Witness ==
  /\ pc = "done"
  /\ \E l, s, t \in LI :
       /\ l \in hist.vectorized
       /\ parent[s] = l
       /\ parent[t] = s
       /\ s \notin Tried
       /\ t \notin Tried

\* The loops the function had when the run began.
OriginalLoops == LI \cap (1 .. MaxLoops)

TimesTried(l) == Cardinality({i \in DOMAIN hist.tried : hist.tried[i] = l})

\* The call of vectorizeLoopOrSubLoops on l has returned.
Finished(l) == l \in Tried /\ \A i \in DOMAIN stack : stack[i].L # l

Traversed == pc = "done" /\ ~env.RV_DISABLE /\ isKernel

Terminated == pc \in {"done", "aborted"}

C11_Descends ==
  /\ \A l \in OriginalLoops :
       (Finished(l) /\ l \notin hist.vectorized) =>
         \A s \in OriginalLoops : parent[s] = l => TimesTried(s) = 1
  /\ Traversed =>
       \A l \in OriginalLoops : parent[l] = 0 => TimesTried(l) = 1
  /\ \A l \in LI : TimesTried(l) <= 1

\* C11: once vectorizeLoopOrSubLoops(l) has returned for a loop l that
\* vectorizeLoop rejected, every immediate sub-loop of l has been tried
\* exactly once, whatever its siblings did; once run() has gone through the
\* function, every top-level loop has been tried exactly once; no loop is
\* tried twice; and the traversal of every loop forest comes to an end.
C11_RejectedLoopsDescend == []C11_Descends /\ <>Terminated

\* The run ended with a rejected loop whose first sub-loop vectorized and
\* whose second sub-loop was tried after it and rejected.
C11_Witness ==
  /\ Traversed
  /\ \E l, s, t \in OriginalLoops :
       /\ l \in Tried
       /\ l \notin hist.vectorized
       /\ parent[s] = l
       /\ parent[t] = l
       /\ s \in hist.vectorized
       /\ t \in Tried
       /\ t \notin hist.vectorized
       /\ Position(s) < Position(t)

\* C12: a finished run returns changed, and the wrapper preserves no
\* analyses, exactly if vectorizeLoop returned true for at least one loop
\* during the run; it returns unchanged, all analyses preserved, exactly if
\* no loop vectorized.
C12_ChangedIffVectorized ==
  (pc = "done" /\ isSet(hist.result)) =>
    /\ get(hist.result) <=> (hist.vectorized # {})
    /\ PreservedAnalyses(get(hist.result)) = "none" <=> (hist.vectorized # {})
    /\ PreservedAnalyses(get(hist.result)) = "all" <=> (hist.vectorized = {})

\* The run returned changed although the loop tried last was rejected: an
\* earlier top-level loop had vectorized.
C12_Witness ==
  /\ Traversed
  /\ hist.result = Some(TRUE)
  /\ Len(hist.tried) >= 2
  /\ hist.tried[1] \in hist.vectorized
  /\ hist.tried[Len(hist.tried)] \notin hist.vectorized
  /\ parent[hist.tried[Len(hist.tried)]] = 0

\* The current call was ended by the trigger gate.
RejectedAtGate == Skipped /\ obs.trace = <<"gate">>

\* C13: a call goes on past the gate only if the loop is annotated parallel
\* or its vectorizeEnable is set to true, and its alreadyVectorized is not
\* true; a loop that is not parallel and whose vectorizeEnable is unset or
\* false is skipped; a loop with alreadyVectorized = true is skipped, parallel
\* or not; a parallel loop not yet vectorized goes on, with the unbounded
\* distance, whatever vectorizeEnable and minDepDist it stores.
C13_TriggerGate ==
  (InCall /\ Reached("gate")) =>
    LET m == obs.mdBefore
        par == parallel[vl.L]
    IN  /\ ~RejectedAtGate =>
             /\ par \/ m.vectorizeEnable = Some(TRUE)
             /\ m.alreadyVectorized # Some(TRUE)
        /\ (~par /\ m.vectorizeEnable # Some(TRUE)) => RejectedAtGate
        /\ m.alreadyVectorized = Some(TRUE) => RejectedAtGate
        /\ (par /\ m.alreadyVectorized # Some(TRUE)) =>
             (~RejectedAtGate /\ vl.depDist = ParallelDistance)

\* A parallel loop storing vectorizeEnable = false and minDepDist = 1 went
\* on past the gate.
C13_Witness ==
  /\ InCall
  /\ pc = "width"
  /\ parallel[vl.L]
  /\ obs.mdBefore.vectorizeEnable = Some(FALSE)
  /\ obs.mdBefore.minDepDist = Some(1)
  /\ vl.depDist = ParallelDistance

\* The loop of the current call lacks a single exiting block that ends in a
\* branch.
LacksBranchExit == InCall /\ ~canVectorizeLoop(TRUE, exiting[vl.L])

\* C14: a loop without a single exiting block that ends in a branch is
\* rejected before any change of the IR: the remainder transform is never
\* invoked on it, its metadata and control flow stay as they were and its
\* call returns false.
C14_ExitShapeGate == LacksBranchExit => Untransformed

\* C15: a call in which the engine failed does not return to
\* vectorizeLoopOrSubLoops, neither with true nor with false.
C15_EngineFailureIsFatal == (InCall /\ obs.engineFailed) => pc # "vl_ret"

RECURSIVE Repeat(_, _)
Repeat(x, n) == IF n = 0 THEN <<>> ELSE <<x>> \o Repeat(x, n - 1)

\* The stages of a call over a prepared loop with n header phis.
StagesInOrder(n) ==
  <<"gate", "width", "reda", "prepare">> \o Repeat("classify", n) \o
  <<"lowerRuntimeCalls", "analyze", "linearize", "vectorize", "verify">>

IsPrefix(s, t) == Len(s) <= Len(t) /\ s = SubSeq(t, 1, Len(s))

StageIndex(s) ==
  CHOOSE i \in DOMAIN obs.trace :
    obs.trace[i] = s /\ \A j \in DOMAIN obs.trace : obs.trace[j] = s => i <= j

Before(s, t) == Reached(s) /\ Reached(t) /\ StageIndex(s) < StageIndex(t)

\* C17: when a header phi of the prepared loop is classified, the reduction
\* analysis whose results are read was computed after the remainder
\* transform, and dominance was recomputed before the classification.
C17_MatchingAfterTransform ==
  (InCall /\ Reached("classify")) =>
    /\ Before("prepare", "reda")
    /\ Before("lowerRuntimeCalls", "classify")

MinDepDist ==
  IF parallel[vl.L] \/ ~isSet(obs.mdBefore.minDepDist)
    THEN ParallelDistance
    ELSE get(obs.mdBefore.minDepDist)

\* C19: for a loop past the gate with neither an explicit width nor
\* RV_FORCE_WIDTH, the cost model is invoked exactly once, with the minimum
\* dependence distance as its guess; if the refined width is <= 1 the call
\* returns false right there, the loop untouched; otherwise the refined
\* width is the width selected and handed to the remainder transform and
\* the engine, equal to the guess or not.
C19_CostModelWidth ==
  (PassedGate /\ ~HasOverride) =>
    /\ Len(obs.costCalls) = 1
    /\ obs.costCalls[1].guess = MinDepDist
    /\ IF obs.costCalls[1].refined <= 1
         THEN /\ Skipped
              /\ obs.trace = <<"gate", "width">>
              /\ Untransformed
         ELSE /\ vl.VectorWidth = obs.costCalls[1].refined
              /\ pc # "vl_ret" \/ Reached("prepare")
              /\ isSet(obs.rtWidth) => get(obs.rtWidth) = obs.costCalls[1].refined
              /\ isSet(obs.engWidth) => get(obs.engWidth) = obs.costCalls[1].refined

\* From the guess 4, the recorded distance, the cost model picked 16, the
\* width then handed to the remainder transform.
C19_Witness ==
  /\ InCall
  /\ ~HasOverride
  /\ obs.costCalls = <<[guess |-> 4, refined |-> 16]>>
  /\ obs.rtWidth = Some(16)

\* The exact trip count is a known constant T with 1 < T <= INT_MAX: the
\* backedge-taken count is T - 1.
KnownTripCount(btc) ==
  isSet(btc) /\ get(btc).hi = 0 /\ get(btc).lo >= 1 /\ get(btc).lo < IntMax

\* C20: getTripAlignment is the trip count T when T is a known constant
\* with 1 < T <= INT_MAX, T = 2 included, and 1 in every other case; it is
\* at least 1.
C20_TripAlignment ==
  pc = "trip_done" =>
    /\ vl.tripAlign >= 1
    /\ IF KnownTripCount(vl.BTC)
         THEN vl.tripAlign = get(vl.BTC).lo + 1
         ELSE vl.tripAlign = 1

\* C21: with diagnostics disabled, a call that ends in a skip has emitted
\* no output; with diagnostics enabled, a call that ends in a skip has
\* emitted output.
C21_DiagnosticsPolicy ==
  (InCall /\ Skipped) => (obs.out = {} <=> ~enableDiagOutput)

\* A step that enters run().
EntersRun == runs' # runs

C22_Step ==
  /\ (EntersRun /\ (env.RV_DISABLE \/ ~isKernel)) =>
       /\ pc' = "done"
       /\ hist'.result = Some(FALSE)
       /\ hist'.tried = <<>>
       /\ ~hist'.engine
       /\ loops' = <<>>
       /\ UNCHANGED irVars
  /\ (EntersRun /\ ~env.RV_DISABLE /\ isKernel) =>
       (pc' = "run_loop" /\ hist'.engine)
  /\ (~EntersRun /\ pc # "done" /\ pc' = "done") =>
       (pc = "run_loop" /\ loops = <<>>)
  /\ (~EntersRun /\ pc \notin {"idle", "done", "aborted"} /\ env' # env) =>
       UNCHANGED <<pc, loops, stack, vl, obs, hist, irVars>>

\* C22: a run entered with RV_DISABLE set, or on a function that is no
\* hipSYCL kernel, returns unchanged at once: no loop is tried, the
\* vectorizer is not created, the function is not touched; a run entered
\* otherwise ends only when its list of top-level loops is used up, having
\* tried each of them, whatever becomes of RV_DISABLE in between.
C22_EntryGate ==
  /\ [][C22_Step]_vars
  /\ [](pc = "done" =>
         IF hist.engine
           THEN \A l \in OriginalLoops : parent[l] = 0 => TimesTried(l) = 1
           ELSE hist.tried = <<>> /\ hist.result = Some(FALSE) /\ cfg = {})

\* A run on a kernel, entered with RV_DISABLE set, has returned unchanged
\* without creating the vectorizer.
C22_Witness ==
  /\ pc = "done"
  /\ runs = 1
  /\ isKernel
  /\ env.RV_DISABLE
  /\ ~hist.engine
  /\ hist.result = Some(FALSE)
  /\ hist.tried = <<>>

\* C23: a call rejected at the trigger gate has changed no IR and no
\* annotation, run no reduction analysis and no cost model and invalidated
\* no cached analysis; every other return of vectorizeLoop, a skip or a
\* success, has invalidated every cached analysis of the function except
\* the loop analysis.
C23_GatePurity ==
  (InCall /\ pc = "vl_ret") =>
    IF RejectedAtGate
      THEN /\ obs.invalidated = {}
           /\ Untransformed
           /\ ~Reached("reda")
           /\ obs.costCalls = <<>>
      ELSE obs.invalidated = CachedAnalyses \ {"LoopAnalysis"}

\* The cost model's skip left the loop untouched and still invalidated the
\* cached analyses.
C23_Witness ==
  /\ Skipped
  /\ obs.trace = <<"gate", "width">>
  /\ Untransformed
  /\ "DominatorTree" \in obs.invalidated
  /\ "LoopAnalysis" \notin obs.invalidated

\* C24: a header phi with a stride pattern is pinned to the pattern's shape
\* for the chosen width and does not end the call, whatever its reduction
\* descriptor is: absent, Top, Bot or with unsupported users.
C24_StridePatternFirst ==
  (PhiExamined /\ vl.phi.pat) =>
    /\ pc = "classify"
    /\ Len(vl.pinned) = vl.idx
    /\ vl.pinned[vl.idx] = [shape |-> "strided", width |-> vl.VectorWidth]

\* A header phi with a stride pattern and a Top descriptor used inside the
\* loop was pinned as strided.
C24_Witness ==
  /\ PhiExamined
  /\ pc = "classify"
  /\ vl.phi.pat
  /\ isSet(vl.phi.red)
  /\ get(vl.phi.red).kind = "Top"
  /\ UsedInsideLoop(get(vl.phi.red))
  /\ vl.pinned[vl.idx].shape = "strided"

\* The kind ReadReductionHint has to give for phi p after the first n calls:
\* that of the last SetReductionHint on p, Bot when there was none.
RECURSIVE HintedKind(_, _)
HintedKind(p, n) ==
  IF n = 0 THEN "Bot"
  ELSE IF hintCalls[n].op = "set" /\ hintCalls[n].phi = p THEN hintCalls[n].kind
  ELSE HintedKind(p, n - 1)

Passes(pl) == {pl[i] : i \in DOMAIN pl}

\* The pipelines that are complete: the legacy one, and the new pass
\* manager's (the function passes of vectorizer start, then the module
\* passes of optimizer last).
BuiltPipelines ==
  (IF {"legacyVS", "legacyOL"} \subseteq PM.ran THEN {PM.legacy} ELSE {}) \cup
  (IF {"VS", "OL"} \subseteq PM.ran THEN {PM.FPM \o PM.MPM} ELSE {})

PolishOnly(pl) ==
  /\ "IRPolisher" \in Passes(pl)
  /\ Passes(pl) \cap
       ({"WFV", "LoopVectorizer"} \cup Passes(PreparatoryPasses) \cup
        Passes(CleanupPasses)) = {}

LoopVecAsConfigured(pl) ==
  /\ "LoopVectorizer" \in Passes(pl) <=> (opts["rv-loopvec"] \/ opts["rv"])
  /\ \A j \in DOMAIN pl :
       pl[j] = "LoopVectorizer" =>
         \A q \in Passes(PreparatoryPasses) : \E i \in 1 .. j - 1 : pl[i] = q

\* C26: with rv-polish set a built pipeline, legacy or new, holds the IR
\* polisher and no vectorizer, preparatory or cleanup pass; with rv-polish
\* unset it holds the loop vectorizer exactly when rv-loopvec or rv is set,
\* and then after the preparatory passes.
C26_PolishOnly ==
  \A pl \in BuiltPipelines :
    IF opts["rv-polish"] THEN PolishOnly(pl) ELSE LoopVecAsConfigured(pl)

====
